---- MODULE Spec2Model ----
(***************************************************************************)
(* Model of worker/handler/handler.go of open-lambda: the HandlerSet       *)
(* registry, the per-lambda Handler state machine (RunStart, RunFinish,    *)
(* StopIfPaused) and the HandlerLRU it calls into.  Goroutines are the     *)
(* threads of the model; a sync.Mutex Lock() is an action that is enabled  *)
(* only while the mutex is free.  A method runs as one step from its       *)
(* Lock() to the next point where it can block on another lock (the LRU's  *)
(* mutex, a victim's mutex) or to its return; RunStart and Get keep a      *)
(* separate return step, where the result is visible with the lock held.   *)
(*                                                                         *)
(* handler.go is the only file of the package under src/.  The HandlerLRU, *)
(* the sandbox, the registry manager and the callers are modelled from     *)
(* spec.md (sections 4.3, 5 and 6).                                        *)
(***************************************************************************)
EXTENDS Integers, Sequences, FiniteSets, TLC

\* ------------------------------------------------------------------ bounds
MaxInst == 2        \* Handler objects that may be allocated per name
MaxRunners == 2     \* cap on h.runners (RunStart is not called beyond it)
MaxFaults == 1      \* collaborator failures injected in one run
MaxK == 1           \* largest HandlerLRU capacity drawn for Spec

\* ------------------------------------------------------------------ universe
AllNames == {"A", "B", "C", "D"}
AllThreads == {"t1", "t2"}
NoThread == "none"
NoName == ""
Nil == <<NoName, 0>>

\* state.HandlerState
Unitialized == "Uninitialized"
Stopped == "Stopped"
Running == "Running"
Paused == "Paused"
HandlerStates == {Unitialized, Stopped, Running, Paused}
SandboxStates == {Stopped, Running, Paused}

VARIABLES
  names,        \* lambda names the callers use in this run
  threads,      \* goroutines of this run
  hsetMutex,    \* HandlerSet.mutex: the thread holding it, or NoThread
  handlers,     \* HandlerSet.handlers: name -> instance number, 0 is nil
  created,      \* Handler objects allocated so far, per name
  returned,     \* Handler pointers some Get has returned
  hd,           \* the Handler structs: mutex, sandbox, lastPull, state, runners
  sb,           \* the sandbox's own state, "None" before Create
  pullCalls,    \* calls of regMgr.Pull, per Handler
  createCalls,  \* calls of sbFactory.Create, per Handler
  logged,       \* the line the latest step wrote with log.Printf, NoLine for none
  outstanding,  \* channels handed out by RunStart and not yet finished
  lruMutex,     \* HandlerLRU.mutex
  hqueue,       \* HandlerLRU: tracked Handlers, least recently added first
  lruMax,       \* HandlerLRU capacity, 0 is unbounded
  faultBudget,  \* collaborator failures the environment of this run may inject
  faultsLeft,   \* collaborator failures that may still happen
  scen,         \* how far the run has followed the scenario "A, B, C, D paused in
                \* order"; 5 once it has left it, or when the run does not watch it
  watch,        \* whether the run follows the resume scenario below
  resumes,      \* <<h, n>>: the latest n completed calls were RunStarts on h that
                \* returned a channel, the first of them having found h Paused
  pc, arg, th, ret, \* per thread: position, Get's name, handler pointer, result
  entry         \* per thread: the Handler, and the failures left, when RunStart locked it

vars == <<names, threads, hsetMutex, handlers, created, returned, hd, sb,
          pullCalls, createCalls, logged, outstanding, lruMutex, hqueue, lruMax,
          faultBudget, faultsLeft, scen, watch, resumes, pc, arg, th, ret, entry>>

\* the Handler objects this run can allocate
HandlerPtrs == names \X (1..MaxInst)

config == <<names, threads, lruMax, faultBudget, watch>>
locals == <<arg, ret, entry>>
hsetVars == <<hsetMutex, handlers, created, returned>>
lruVars == <<lruMutex, hqueue>>
counters == <<pullCalls, createCalls>>

\* a Handler mutex that never excludes anybody
MutexFree_NoLock(m) == TRUE

\* Handler.mutex.Lock() proceeds only when nobody holds the mutex
MutexFree(m) == m = NoThread

\* a registry mutex that never excludes anybody
HsetUnlocked_NoLock == TRUE

\* HandlerSet.mutex.Lock() proceeds only when nobody holds the mutex
HsetUnlocked == hsetMutex = NoThread

\* the Handler's fields without its mutex
Fields(rec) == [rec EXCEPT !.mutex = NoThread]

NoEntry == [h |-> Fields([mutex |-> NoThread, sandbox |-> FALSE, lastPull |-> FALSE,
                          state |-> "Uninitialized", runners |-> 0]),
            faults |-> 0]

\* &Handler{hset: h, name: name, state: state.Unitialized, runners: 0}
NewHandler ==
  [mutex |-> NoThread, sandbox |-> FALSE, lastPull |-> FALSE,
   state |-> Unitialized, runners |-> 0]

\* the log.Printf lines of RunFinish and StopIfPaused: "Could not pause",
\* "Could not unpause ... to kill it", "Could not kill ... after unpausing"
LogLines == {"pause", "unpause", "kill"}

NoLine == ""

\* the outcomes a collaborator call can have: TRUE is success
Outcomes == IF faultsLeft > 0 THEN {TRUE, FALSE} ELSE {TRUE}

Spend(ok) == faultsLeft' = IF ok THEN faultsLeft ELSE faultsLeft - 1

\* NewHandlerSet / NewHandlerLRU: an empty registry, an empty LRU
NoResume == <<Nil, 0>>

InitWith(ns, ts, ks, f, sc, w) ==
  /\ names = ns
  /\ threads = ts
  /\ lruMax \in ks
  /\ hsetMutex = NoThread
  /\ handlers = [n \in ns |-> 0]
  /\ created = [n \in ns |-> 0]
  /\ returned = {}
  /\ hd = [h \in ns \X (1..MaxInst) |-> NewHandler]
  /\ sb = [h \in ns \X (1..MaxInst) |-> "None"]
  /\ pullCalls = [h \in ns \X (1..MaxInst) |-> 0]
  /\ createCalls = [h \in ns \X (1..MaxInst) |-> 0]
  /\ logged = NoLine
  /\ outstanding = [h \in ns \X (1..MaxInst) |-> 0]
  /\ lruMutex = NoThread
  /\ hqueue = <<>>
  /\ faultBudget = f
  /\ faultsLeft = f
  /\ pc = [t \in AllThreads |-> "idle"]
  /\ arg = [t \in AllThreads |-> NoName]
  /\ th = [t \in AllThreads |-> Nil]
  /\ ret = [t \in AllThreads |-> "none"]
  /\ entry = [t \in AllThreads |-> NoEntry]
  /\ scen = sc
  /\ watch = w
  /\ resumes = NoResume

Init == InitWith({"A", "B"}, AllThreads, 0..MaxK, MaxFaults, 5, FALSE)

\* collaborators that never fail, an LRU of capacity 1
InitNoFault == InitWith({"A", "B"}, AllThreads, {1}, 0, 5, FALSE)

\* one caller making its calls one after the other, the resume scenario followed
InitSeq == InitWith({"A", "B"}, {"t1"}, 0..MaxK, MaxFaults, 5, TRUE)

\* the LRU order scenario: one caller, four lambdas, capacity 2 or 3, no failures
InitLru == InitWith(AllNames, {"t1"}, {2, 3}, 0, 0, FALSE)

\* ------------------------------------------------------------------ HandlerSet.Get
\* h.mutex.Lock(); handler := h.handlers[name]; if handler == nil
GetLookup(t, n) ==
  /\ t \in threads /\ n \in names
  /\ pc[t] = "idle"
  /\ HsetUnlocked
  /\ hsetMutex' = t
  /\ arg' = [arg EXCEPT ![t] = n]
  /\ LET k == handlers[n] IN
       IF k = 0
       THEN /\ pc' = [pc EXCEPT ![t] = "get_create"]
            /\ th' = [th EXCEPT ![t] = Nil]
       ELSE /\ pc' = [pc EXCEPT ![t] = "get_ret"]
            /\ th' = [th EXCEPT ![t] = <<n, k>>]
  /\ logged' = NoLine
  /\ resumes' = NoResume
  /\ UNCHANGED <<config, handlers, created, returned, hd, sb, counters,
                 outstanding, lruVars, faultsLeft, scen, ret, entry>>

\* handler = &Handler{...}; h.handlers[name] = handler
GetCreate(t) ==
  /\ pc[t] = "get_create"
  /\ created[arg[t]] < MaxInst
  /\ LET n == arg[t]
         k == created[n] + 1
     IN /\ created' = [created EXCEPT ![n] = k]
        /\ hd' = [hd EXCEPT ![<<n, k>>] = NewHandler]
        /\ handlers' = [handlers EXCEPT ![n] = k]
        /\ th' = [th EXCEPT ![t] = <<n, k>>]
  /\ pc' = [pc EXCEPT ![t] = "get_ret"]
  /\ logged' = NoLine
  /\ UNCHANGED <<config, resumes, hsetMutex, returned, sb, counters, outstanding,
                 lruVars, faultsLeft, scen, locals>>

\* defer h.mutex.Unlock(); return handler
GetReturn(t) ==
  /\ pc[t] = "get_ret"
  /\ hsetMutex' = NoThread
  /\ returned' = returned \cup {th[t]}
  /\ pc' = [pc EXCEPT ![t] = "idle"]
  /\ arg' = [arg EXCEPT ![t] = NoName]
  /\ th' = [th EXCEPT ![t] = Nil]
  /\ logged' = NoLine
  /\ UNCHANGED <<config, resumes, handlers, created, hd, sb, counters, outstanding,
                 lruVars, faultsLeft, scen, ret, entry>>

Get(t) ==
  \/ \E n \in names : GetLookup(t, n)
  \/ GetCreate(t)
  \/ GetReturn(t)

\* ------------------------------------------------------------------ Handler.RunStart
\* what a step of RunStart leaves behind: the Handler struct, the sandbox's own
\* state, the collaborator calls made, the result and where the thread goes next
RsSet(t, h, rec, sbs, dc, ok, r, next) ==
  /\ hd' = [hd EXCEPT ![h] = [rec EXCEPT !.mutex = t]]
  /\ sb' = [sb EXCEPT ![h] = sbs]
  /\ createCalls' = [createCalls EXCEPT ![h] = @ + dc]
  /\ Spend(ok)
  /\ ret' = [ret EXCEPT ![t] = r]
  /\ pc' = [pc EXCEPT ![t] = next]
  /\ logged' = NoLine
  /\ UNCHANGED <<config, resumes, hsetVars, pullCalls, outstanding, lruVars, scen, arg, th,
                 entry>>

\* h.runners += 1 forgotten
Started_NoCount(rec) == [rec EXCEPT !.state = Running]

\* h.state = state.Running; h.runners += 1
Started(rec) == [rec EXCEPT !.state = Running, !.runners = @ + 1]

\* h.state = state.Running; h.runners += 1; return h.sandbox.Channel()
RsFinish(t, h, rec, sbs, dc) ==
  \E ok \in Outcomes :
    RsSet(t, h, Started(rec), sbs, dc, ok,
          IF ok THEN "ok" ELSE "err_channel", "rs_ret")

\* if h.hset.poolMgr != nil { containerSB, ok := h.sandbox.(sb.ContainerSandbox);
\* if !ok { return nil, errors.New(...) } }
RsForkEnter(t, h, rec, sbs, dc) ==
  \/ /\ FALSE \in Outcomes
     /\ RsSet(t, h, rec, sbs, dc, FALSE, "err_forkenter", "rs_ret")
  \/ RsFinish(t, h, rec, sbs, dc)

\* newly created sandbox could be in any state; let it run
RsBoot(t, h, rec, sbs, dc) ==
  IF rec.state \in {Stopped, Paused}
  THEN \E ok \in Outcomes :
         IF ok
         THEN RsForkEnter(t, h, rec, Running, dc)
         ELSE RsSet(t, h, rec, sbs, dc, FALSE,
                    IF rec.state = Stopped THEN "err_start" ELSE "err_unpause",
                    "rs_ret")
  ELSE RsForkEnter(t, h, rec, sbs, dc)

\* h.sandbox assigned before err is looked at
AfterCreateError_Assigned(rec) == [rec EXCEPT !.sandbox = TRUE]

\* sandbox, err := h.hset.sbFactory.Create(...); if err != nil { return nil, err }
AfterCreateError(rec) == rec

\* create sandbox if needed: MkdirAll, sbFactory.Create, sandbox.State()
RsCreate(t, h, rec) ==
  \/ /\ FALSE \in Outcomes
     /\ \/ RsSet(t, h, rec, sb[h], 0, FALSE, "err_mkdir", "rs_ret")
        \/ RsSet(t, h, AfterCreateError(rec), sb[h], 1, FALSE, "err_create", "rs_ret")
  \/ \E s0 \in SandboxStates :
       LET rec1 == [rec EXCEPT !.sandbox = TRUE] IN
         \/ /\ FALSE \in Outcomes
            /\ \E s \in HandlerStates :
                 RsSet(t, h, [rec1 EXCEPT !.state = s], s0, 1, FALSE,
                       "err_state", "rs_ret")
         \/ RsBoot(t, h, [rec1 EXCEPT !.state = s0], s0, 1)

\* a resume that unpauses and forgets h.hset.lru.Remove(h)
RsResume_NoRemove(t, h, rec) ==
  IF rec.state = Paused
  THEN \E ok \in Outcomes :
         IF ok
         THEN RsSet(t, h, Started(rec), Running, 0, TRUE, "ok", "rs_ret")
         ELSE RsSet(t, h, rec, sb[h], 0, FALSE, "err_unpause", "rs_ret")
  ELSE RsFinish(t, h, rec, sb[h], 0)

\* } else if h.state == state.Paused { h.sandbox.Unpause(); h.hset.lru.Remove(h) }
RsResume(t, h, rec) ==
  IF rec.state = Paused
  THEN \E ok \in Outcomes :
         IF ok
         THEN RsSet(t, h, rec, Running, 0, TRUE, "none", "rs_remove")
         ELSE RsSet(t, h, rec, sb[h], 0, FALSE, "err_unpause", "rs_ret")
  ELSE RsFinish(t, h, rec, sb[h], 0)

\* h.mutex.Lock(); if h.lastPull == nil, call h.hset.regMgr.Pull(h.name)
RunStartLock(t, h) ==
  /\ t \in threads /\ h \in returned
  /\ pc[t] = "idle"
  /\ hd[h].runners < MaxRunners
  /\ MutexFree(hd[h].mutex)
  /\ hd' = [hd EXCEPT ![h].mutex = t]
  /\ th' = [th EXCEPT ![t] = h]
  /\ entry' = [entry EXCEPT ![t] = [h |-> Fields(hd[h]), faults |-> faultsLeft]]
  /\ IF hd[h].lastPull
     THEN /\ pc' = [pc EXCEPT ![t] = "rs_sandbox"]
          /\ UNCHANGED pullCalls
     ELSE /\ pc' = [pc EXCEPT ![t] = "rs_pull"]
          /\ pullCalls' = [pullCalls EXCEPT ![h] = @ + 1]
  /\ logged' = NoLine
  /\ UNCHANGED <<config, resumes, hsetVars, sb, createCalls, outstanding, lruVars,
                 faultsLeft, scen, arg, ret>>

\* Pull returns: if err != nil { return nil, err }; h.lastPull = &now; h.codeDir = codeDir
RunStartPulled(t) ==
  /\ pc[t] = "rs_pull"
  /\ LET h == th[t] IN
       \E ok \in Outcomes :
         IF ok
         THEN RsSet(t, h, [hd[h] EXCEPT !.lastPull = TRUE], sb[h], 0, TRUE,
                    "none", "rs_sandbox")
         ELSE RsSet(t, h, hd[h], sb[h], 0, FALSE, "err_pull", "rs_ret")

\* create sandbox if needed, else unpause if paused; up to the return or to lru.Remove
RunStartSandbox(t) ==
  /\ pc[t] = "rs_sandbox"
  /\ LET h == th[t] IN
       IF ~hd[h].sandbox THEN RsCreate(t, h, hd[h]) ELSE RsResume(t, h, hd[h])

\* HandlerLRU.Remove: safe when absent
LruRemove(q, h) == SelectSeq(q, LAMBDA x : x # h)

\* the scenario of the LRU order property: A, B, C, D added in this order and
\* nothing else done to the LRU; 5 once the run has left it
ScenAdd(s, h) ==
  IF s < 4 /\ h = <<(<<"A", "B", "C", "D">>)[s + 1], 1>> THEN s + 1 ELSE 5

\* h.hset.lru.Remove(h), then lines 164-167
RunStartRemove(t) ==
  /\ pc[t] = "rs_remove"
  /\ MutexFree(lruMutex)
  /\ hqueue' = LruRemove(hqueue, th[t])
  /\ scen' = 5
  /\ \E ok \in Outcomes :
       /\ hd' = [hd EXCEPT ![th[t]] = Started(@)]
       /\ Spend(ok)
       /\ ret' = [ret EXCEPT ![t] = IF ok THEN "ok" ELSE "err_channel"]
  /\ pc' = [pc EXCEPT ![t] = "rs_ret"]
  /\ logged' = NoLine
  /\ UNCHANGED <<config, resumes, hsetVars, sb, counters, outstanding, lruMutex, arg, th, entry>>

\* the resume scenario after a RunStart of t returns
ResumeNext(t) ==
  IF ~watch \/ ret[t] # "ok" THEN NoResume
  ELSE IF entry[t].h.state = Paused THEN <<th[t], 1>>
  ELSE IF resumes = <<th[t], 1>> THEN <<th[t], 2>>
  ELSE NoResume

\* defer h.mutex.Unlock(); the caller holds a channel when err == nil
RunStartReturn(t) ==
  /\ pc[t] = "rs_ret"
  /\ hd' = [hd EXCEPT ![th[t]].mutex = NoThread]
  /\ outstanding' = [outstanding EXCEPT ![th[t]] = IF ret[t] = "ok" THEN @ + 1 ELSE @]
  /\ pc' = [pc EXCEPT ![t] = "idle"]
  /\ th' = [th EXCEPT ![t] = Nil]
  /\ ret' = [ret EXCEPT ![t] = "none"]
  /\ entry' = [entry EXCEPT ![t] = NoEntry]
  /\ logged' = NoLine
  /\ resumes' = ResumeNext(t)
  /\ UNCHANGED <<config, hsetVars, sb, counters, lruVars, faultsLeft, scen, arg>>

RunStart(t) ==
  \/ \E h \in HandlerPtrs : RunStartLock(t, h)
  \/ RunStartPulled(t)
  \/ RunStartSandbox(t)
  \/ RunStartRemove(t)
  \/ RunStartReturn(t)

\* ------------------------------------------------------------------ Handler.StopIfPaused
\* a StopIfPaused that records Stopped whatever Unpause and Stop returned
StopIfPausedRec_Always(rec, unpauseOk, stopOk) ==
  IF rec.state # Paused THEN rec ELSE [rec EXCEPT !.state = Stopped]

\* the Handler after StopIfPaused, given how Unpause and Stop went
StopIfPausedRec(rec, unpauseOk, stopOk) ==
  IF rec.state # Paused THEN rec
  ELSE IF unpauseOk /\ stopOk THEN [rec EXCEPT !.state = Stopped]
  ELSE rec

\* the sandbox after StopIfPaused
StopIfPausedSb(rec, sbs, unpauseOk, stopOk) ==
  IF rec.state # Paused THEN sbs
  ELSE IF ~unpauseOk THEN sbs
  ELSE IF stopOk THEN Stopped ELSE Running

\* the line StopIfPaused logs
StopIfPausedLog(rec, unpauseOk, stopOk) ==
  IF rec.state # Paused THEN NoLine
  ELSE IF ~unpauseOk THEN "unpause"
  ELSE IF ~stopOk THEN "kill" ELSE NoLine

\* how Unpause and Stop may go: <<unpauseOk, stopOk>>
StopOutcomes(rec) ==
  IF rec.state = Paused /\ faultsLeft > 0
  THEN {<<TRUE, TRUE>>, <<FALSE, TRUE>>, <<TRUE, FALSE>>}
  ELSE {<<TRUE, TRUE>>}

\* h.mutex.Lock(), the body and the deferred Unlock
StopIfPaused(t, h) ==
  /\ t \in threads /\ h \in returned
  /\ pc[t] = "idle"
  /\ MutexFree(hd[h].mutex)
  /\ \E o \in StopOutcomes(hd[h]) :
       /\ hd' = [hd EXCEPT ![h] = StopIfPausedRec(@, o[1], o[2])]
       /\ sb' = [sb EXCEPT ![h] = StopIfPausedSb(hd[h], @, o[1], o[2])]
       /\ logged' = StopIfPausedLog(hd[h], o[1], o[2])
       /\ Spend(o[1] /\ o[2])
  /\ resumes' = NoResume
  /\ UNCHANGED <<config, hsetVars, counters, outstanding, lruVars, scen, pc, th, locals>>

\* ------------------------------------------------------------------ HandlerLRU
\* Add: insert, or refresh, as the most recently paused entry
LruInsert(q, h) == Append(LruRemove(q, h), h)

\* a capacity check that lets one entry too many stay
LruOver_OffByOne(q, k) == k # 0 /\ Len(q) > k + 1

\* the paused population is above the capacity, and the capacity is not 0
LruOver(q, k) == k # 0 /\ Len(q) > k

\* the second oldest entry
LruVictim_Second(q) == q[2]

\* the entry the sweep evicts next: the least recently paused
LruVictim(q) == q[1]

\* ------------------------------------------------------------------ Handler.RunFinish
\* a RunFinish that takes two runners off
Finished_Twice(rec) == [rec EXCEPT !.runners = @ - 2]

\* h.runners -= 1
Finished(rec) == [rec EXCEPT !.runners = @ - 1]

\* every RunFinish taken for the last one
LastRunner_Any(rec) == TRUE

\* are we the last?  if h.runners == 0
LastRunner(rec) == rec.runners = 0

\* a failed Pause that leaves no trace
PauseLog_Silent(ok) == NoLine

\* if err := h.sandbox.Pause(); err != nil { log.Printf("Could not pause ...") }
PauseLog(ok) == IF ok THEN NoLine ELSE "pause"

\* h.state = state.Paused
Idle(rec) == [rec EXCEPT !.state = Paused]

\* h.mutex.Lock(); h.runners -= 1; if h.runners == 0 { h.sandbox.Pause();
\* h.state = state.Paused }, up to lru.Add or to the return.  Called once per
\* channel handed out.
RunFinishBody(t, h) ==
  /\ t \in threads /\ h \in returned
  /\ pc[t] = "idle"
  /\ outstanding[h] > 0
  /\ MutexFree(hd[h].mutex)
  /\ outstanding' = [outstanding EXCEPT ![h] = @ - 1]
  /\ LET rec == Finished(hd[h]) IN
       IF LastRunner(rec)
       THEN \E ok \in Outcomes :
              /\ hd' = [hd EXCEPT ![h] = [Idle(rec) EXCEPT !.mutex = t]]
              /\ sb' = [sb EXCEPT ![h] = IF ok THEN Paused ELSE @]
              /\ logged' = PauseLog(ok)
              /\ Spend(ok)
              /\ pc' = [pc EXCEPT ![t] = "rf_add"]
              /\ th' = [th EXCEPT ![t] = h]
       ELSE /\ hd' = [hd EXCEPT ![h] = rec]
            /\ logged' = NoLine
            /\ UNCHANGED <<sb, faultsLeft, pc, th>>
  /\ resumes' = NoResume
  /\ UNCHANGED <<config, hsetVars, counters, lruVars, scen, locals>>

\* h.hset.lru.Add(h): lock the LRU and insert
RunFinishAdd(t) ==
  /\ pc[t] = "rf_add"
  /\ MutexFree(lruMutex)
  /\ lruMutex' = t
  /\ hqueue' = LruInsert(hqueue, th[t])
  /\ scen' = ScenAdd(scen, th[t])
  /\ pc' = [pc EXCEPT ![t] = "lru_sweep"]
  /\ logged' = NoLine
  /\ UNCHANGED <<config, resumes, hsetVars, hd, sb, counters, outstanding, faultsLeft,
                 th, locals>>

\* Add, over capacity: StopIfPaused on the oldest entry, which leaves the
\* structure once it is no longer Paused
LruEvict(t) ==
  /\ pc[t] = "lru_sweep"
  /\ LruOver(hqueue, lruMax)
  /\ LET v == LruVictim(hqueue) IN
       /\ MutexFree(hd[v].mutex)
       /\ \E o \in StopOutcomes(hd[v]) :
            LET rec == StopIfPausedRec(hd[v], o[1], o[2]) IN
              /\ hd' = [hd EXCEPT ![v] = rec]
              /\ sb' = [sb EXCEPT ![v] = StopIfPausedSb(hd[v], @, o[1], o[2])]
              /\ logged' = StopIfPausedLog(hd[v], o[1], o[2])
              /\ Spend(o[1] /\ o[2])
              /\ hqueue' = IF rec.state # Paused THEN LruRemove(hqueue, v) ELSE hqueue
  /\ ret' = [ret EXCEPT ![t] = "swept"]
  /\ UNCHANGED <<config, resumes, hsetVars, counters, outstanding, lruMutex, scen, pc, arg,
                 th, entry>>

\* Add returns at or under capacity; RunFinish's deferred Unlock
RunFinishReturn(t) ==
  /\ pc[t] = "lru_sweep"
  /\ ~LruOver(hqueue, lruMax)
  /\ lruMutex' = NoThread
  /\ hd' = [hd EXCEPT ![th[t]].mutex = NoThread]
  /\ pc' = [pc EXCEPT ![t] = "idle"]
  /\ th' = [th EXCEPT ![t] = Nil]
  /\ ret' = [ret EXCEPT ![t] = "none"]
  /\ logged' = NoLine
  /\ UNCHANGED <<config, resumes, hsetVars, sb, counters, outstanding, hqueue, faultsLeft,
                 scen, arg, entry>>

RunFinish(t) ==
  \/ \E h \in HandlerPtrs : RunFinishBody(t, h)
  \/ RunFinishAdd(t)
  \/ LruEvict(t)
  \/ RunFinishReturn(t)

\* ------------------------------------------------------------------ specification
Next ==
  \E t \in AllThreads :
    \/ Get(t)
    \/ RunStart(t)
    \/ RunFinish(t)
    \/ \E h \in HandlerPtrs : StopIfPaused(t, h)

Spec == Init /\ [][Next]_vars

SpecLru == InitLru /\ [][Next]_vars

SpecSeq == InitSeq /\ [][Next]_vars

\* the steps of t that finish a call it has begun
Continue(t) ==
  \/ GetCreate(t) \/ GetReturn(t)
  \/ RunStartPulled(t) \/ RunStartSandbox(t) \/ RunStartRemove(t) \/ RunStartReturn(t)
  \/ RunFinishAdd(t) \/ LruEvict(t) \/ RunFinishReturn(t)

\* no failures, and a goroutine that can go on with its call eventually does:
\* the Go scheduler runs every runnable goroutine, and collaborator calls return
SpecFair == InitNoFault /\ [][Next]_vars /\ \A t \in AllThreads : WF_vars(Continue(t))
\* ------------------------------------------------------------------ properties
\* the Handlers the LRU tracks
Tracked == {hqueue[i] : i \in 1..Len(hqueue)}

\* nobody holds the Handler's lock: an observation point
Unlocked(h) == hd[h].mutex = NoThread

\* no collaborator has failed so far in this run
NoFault == faultsLeft = faultBudget

\* the threads that are inside RunStart on h and hold a channel to return
Returning(h) == {t \in AllThreads : pc[t] = "rs_ret" /\ th[t] = h /\ ret[t] = "ok"}

\* the errors of RunStart's cold-start path
ColdStartErrors ==
  {"err_pull", "err_mkdir", "err_create", "err_state", "err_start", "err_unpause",
   "err_forkenter"}

\* the thread whose lock t is waiting for, NoThread when t is not blocked
WaitsOn(t) ==
  IF pc[t] \in {"rs_remove", "rf_add"} THEN lruMutex
  ELSE IF pc[t] = "lru_sweep" /\ LruOver(hqueue, lruMax)
       THEN hd[LruVictim(hqueue)].mutex
  ELSE NoThread

\* the Handlers whose lock t waits for, itself or through the holder of the LRU's lock
WaitsForHandler(t) ==
  LET direct(u) == IF pc[u] = "lru_sweep" /\ LruOver(hqueue, lruMax)
                      /\ hd[LruVictim(hqueue)].mutex # NoThread
                   THEN {LruVictim(hqueue)} ELSE {}
  IN direct(t) \cup
     (IF pc[t] \in {"rs_remove", "rf_add"} /\ lruMutex # NoThread
      THEN direct(lruMutex) ELSE {})

\* C1: for every name, whatever the interleaving of Get calls, one Handler is
\* ever created, every Get returns that one, and a Handler that Get has just
\* created is Uninitialized with no runners.
C1_GetOneController ==
  /\ \A n \in names : created[n] <= 1
  /\ \A h1, h2 \in returned : h1[1] = h2[1] => h1 = h2
  /\ \A t \in AllThreads :
       pc[t] = "get_ret" =>
         /\ th[t] = <<arg[t], handlers[arg[t]]>>
         /\ \A h \in returned : h[1] = arg[t] => h = th[t]
         /\ th[t] \notin returned =>
              hd[th[t]].state = Unitialized /\ hd[th[t]].runners = 0

\* C1 witness: a Get is about to return a Handler that an earlier Get created
\* and returned and that has been used since.
C1_SecondGetSameHandler ==
  \E t \in AllThreads :
    pc[t] = "get_ret" /\ th[t] \in returned /\ hd[th[t]].state # Unitialized

\* C2: whenever a Handler's lock is free, Running implies at least one runner
\* and no runner implies Paused, Stopped or Uninitialized.
C2_RunningHasRunners ==
  \A h \in HandlerPtrs :
    Unlocked(h) =>
      /\ hd[h].state = Running => hd[h].runners >= 1
      /\ hd[h].runners = 0 => hd[h].state \in {Paused, Stopped, Unitialized}

\* C3: a RunStart that fails on its cold-start path returns with the Handler
\* exactly as it was when the call began (lastPull, sandbox, state, runners).
C3_ColdErrorLeavesUnchanged ==
  \A t \in AllThreads :
    (pc[t] = "rs_ret" /\ ret[t] \in ColdStartErrors /\ ~entry[t].h.sandbox) =>
      Fields(hd[th[t]]) = entry[t].h

\* C4: when Pull or Create fails, RunStart returns with no sandbox, state
\* Uninitialized and the runners it found; a RunStart on a Handler without
\* sandbox during which no collaborator fails returns a channel, with state
\* Running and one runner more.
C4_FetchCreateFailure ==
  \A t \in AllThreads :
    pc[t] = "rs_ret" =>
      LET h == th[t]
          e == entry[t]
      IN /\ ret[t] \in {"err_pull", "err_create"} =>
              /\ ~hd[h].sandbox
              /\ hd[h].state = Unitialized
              /\ hd[h].runners = e.h.runners
         /\ (~e.h.sandbox /\ faultsLeft = e.faults) =>
              /\ ret[t] = "ok"
              /\ hd[h].sandbox
              /\ hd[h].state = Running
              /\ hd[h].runners = e.h.runners + 1

\* C4 witness: a RunStart returns a channel on a Handler on which an earlier
\* RunStart failed in Pull or in Create.
C4_RetryAfterFailure ==
  \E t \in AllThreads :
    /\ pc[t] = "rs_ret" /\ ret[t] = "ok" /\ ~entry[t].h.sandbox
    /\ entry[t].h.state = Unitialized
    /\ pullCalls[th[t]] = 2 \/ createCalls[th[t]] = 2

ColdStartCounts ==
  NoFault =>
    /\ \A h \in HandlerPtrs :
         /\ pullCalls[h] <= 1
         /\ createCalls[h] <= 1
         /\ hd[h].sandbox => pullCalls[h] = 1 /\ createCalls[h] = 1
         /\ hd[h].runners = outstanding[h] + Cardinality(Returning(h))
    /\ \A t \in AllThreads : pc[t] = "rs_ret" => ret[t] = "ok"

\* C5: when no collaborator fails, Pull and Create are each called at most
\* once per Handler however the RunStart calls interleave, the runners equal
\* the channels held by callers, and every RunStart that has the lock and
\* does not have to resume a Paused sandbox eventually returns a channel.
C5_ColdStartOnce ==
  /\ []ColdStartCounts
  /\ \A t \in AllThreads :
       (pc[t] \in {"rs_pull", "rs_sandbox"} /\ hd[th[t]].state # Paused)
         ~> (pc[t] = "rs_ret" /\ ret[t] = "ok")

\* C5 witness: the second of two RunStart calls on a fresh Handler is about to
\* return its channel: it found the sandbox the first one created, nothing has
\* finished yet and both callers count as runners.
C5_TwoCallersOneColdStart ==
  \E t \in AllThreads :
    /\ NoFault /\ pc[t] = "rs_ret" /\ ret[t] = "ok"
    /\ entry[t].h.sandbox /\ entry[t].h.runners = 1
    /\ hd[th[t]].runners = 2
    /\ pullCalls[th[t]] = 1 /\ createCalls[th[t]] = 1
    /\ hqueue = <<>> /\ sb[th[t]] = Running

\* C6: no set of operations waits on each other's locks for ever: there is no
\* nonempty set of threads each blocked on a lock held inside the set.
C6_NoLockCycle ==
  ~ \E D \in (SUBSET AllThreads) \ {{}} : \A t \in D : WaitsOn(t) \in D

\* C7: an operation on one Handler never waits for the lock of another
\* Handler, not even through the LRU.
C7_NoCrossControllerWait ==
  \A t \in AllThreads : WaitsForHandler(t) \subseteq {th[t]}

\* C8: whenever a Handler's lock and the LRU's lock are free, the Handler is
\* tracked by the LRU if and only if its state is Paused.
C8_TrackedIffPaused ==
  \A h \in HandlerPtrs :
    (Unlocked(h) /\ lruMutex = NoThread) =>
      (h \in Tracked <=> hd[h].state = Paused)

IsRunFinish(h) == outstanding'[h] = outstanding[h] - 1

\* the step is a StopIfPaused on h called directly (not by the LRU's sweep)
IsStopIfPaused(h) == \E t \in AllThreads : StopIfPaused(t, h)

\* the step injected no collaborator failure
StepNoFault == faultsLeft' = faultsLeft

LifecycleStart ==
  \A t \in AllThreads :
    (/\ pc[t] = "rs_ret" /\ ~entry[t].h.sandbox /\ entry[t].h.state = Unitialized
     /\ faultsLeft = entry[t].faults) =>
      /\ ret[t] = "ok"
      /\ hd[th[t]].state = Running /\ hd[th[t]].runners = 1 /\ sb[th[t]] = Running

LifecycleFinish ==
  \A h \in HandlerPtrs :
    IsRunFinish(h) =>
      /\ hd'[h].runners = hd[h].runners - 1
      /\ IF hd'[h].runners = 0
         THEN /\ hd'[h].state = Paused
              /\ StepNoFault => sb'[h] = Paused
              /\ \E t \in AllThreads : pc'[t] = "rf_add" /\ th'[t] = h
         ELSE hd'[h].state = hd[h].state /\ sb'[h] = sb[h] /\ pc' = pc

LifecycleAdd ==
  \A t \in AllThreads :
    /\ pc[t] = "rf_add" /\ pc'[t] # "rf_add" => th[t] \in {hqueue'[i] : i \in 1..Len(hqueue')}
    /\ pc[t] = "lru_sweep" =>
         th[t] \in Tracked /\ hd[th[t]].state = Paused /\ hd[th[t]].runners = 0

LifecycleStop ==
  \A h \in HandlerPtrs :
    (IsStopIfPaused(h) /\ hd[h].state = Paused /\ StepNoFault) =>
      hd'[h].state = Stopped /\ sb'[h] = Stopped

\* C11: a RunStart on an Uninitialized Handler during which nothing fails
\* returns with state Running, one runner and a running sandbox; the RunFinish
\* that brings the runners to 0 sets the state to Paused (pausing the sandbox
\* when Pause succeeds) and adds the Handler to the LRU, where it still is,
\* Paused with 0 runners, when RunFinish returns; no other RunFinish changes
\* the state; a StopIfPaused on a Paused Handler whose Unpause and Stop
\* succeed leaves it Stopped.
C11_NominalLifecycle ==
  /\ []LifecycleStart
  /\ [][LifecycleFinish /\ LifecycleAdd /\ LifecycleStop]_vars

\* C11 witness: without any failure a Handler has been started once (one Pull,
\* one Create), finished, paused and tracked, and then stopped by a direct
\* StopIfPaused (capacity 0: no sweep ever runs).
C11_StoppedAfterLifecycle ==
  \E h \in HandlerPtrs :
    /\ NoFault /\ lruMax = 0
    /\ hd[h].state = Stopped /\ sb[h] = Stopped /\ hd[h].runners = 0
    /\ pullCalls[h] = 1 /\ createCalls[h] = 1 /\ h \in Tracked /\ Unlocked(h)

\* the step is the RunFinish on h that brings the runners to 0 and whose Pause fails
PauseFails(h) == IsRunFinish(h) /\ hd'[h].runners = 0 /\ ~StepNoFault

\* C12: when Pause fails in the RunFinish that brings the runners to 0, the
\* state still becomes Paused, the sandbox is left as it was, the "Could not
\* pause" line is logged (and only then), RunFinish goes on to lru.Add, which
\* tracks the Handler, and RunFinish returns with the Handler Paused and
\* tracked and without any error for its caller.
C12_PauseFailureNotFatal ==
  [][/\ \A h \in HandlerPtrs :
          /\ PauseFails(h) =>
               /\ hd'[h].state = Paused /\ sb'[h] = sb[h] /\ logged' = "pause"
               /\ \E t \in AllThreads : pc'[t] = "rf_add" /\ th'[t] = h /\ ret'[t] = "none"
          /\ (IsRunFinish(h) /\ StepNoFault) => logged' = NoLine
     /\ \A t \in AllThreads :
          /\ (pc[t] = "rf_add" /\ pc'[t] # "rf_add") =>
               /\ pc'[t] = "lru_sweep"
               /\ th[t] \in {hqueue'[i] : i \in 1..Len(hqueue')}
          /\ (pc[t] = "lru_sweep" /\ pc'[t] # "lru_sweep") =>
               /\ pc'[t] = "idle" /\ ret'[t] = "none"
               /\ hd'[th[t]].state = Paused /\ hd'[th[t]].mutex = NoThread
               /\ th[t] \in {hqueue'[i] : i \in 1..Len(hqueue')}
    ]_vars

\* C12 witness: a RunFinish whose Pause failed (the one failure of the run: the
\* sandbox is still running) has added its Handler, Paused, to the LRU.
C12_PausedButRunning ==
  \E t \in AllThreads :
    /\ pc[t] = "lru_sweep" /\ faultBudget - faultsLeft = 1
    /\ hd[th[t]].state = Paused /\ hd[th[t]].runners = 0
    /\ sb[th[t]] = Running /\ th[t] \in Tracked

\* no call is in progress
AllIdle == \A t \in AllThreads : pc[t] = "idle"

ResumedRunning(h, n) ==
  /\ hd[h].state = Running /\ hd[h].runners = n
  /\ sb[h] = Running /\ h \notin Tracked

\* C13: after a RunStart that found the Handler Paused and returned a
\* channel, and again after a second RunStart on it called right after the
\* first returned, the Handler is Running, with 1 and then 2 runners, its
\* sandbox runs and the LRU does not track it; the first call leaves through
\* its one Unpause, the second makes no sandbox transition and does not touch
\* the LRU.
C13_IdempotentResume ==
  /\ [](\A h \in HandlerPtrs : \A n \in 1..2 :
          (AllIdle /\ resumes = <<h, n>>) => ResumedRunning(h, n))
  /\ [][\A t \in AllThreads :
          pc[t] = "rs_sandbox" =>
            /\ (hd[th[t]].sandbox /\ hd[th[t]].state = Paused) =>
                 \/ pc'[t] = "rs_remove" /\ sb'[th[t]] = Running
                 \/ pc'[t] = "rs_ret" /\ ret'[t] = "err_unpause" /\ sb' = sb
            /\ resumes = <<th[t], 1>> =>
                 pc'[t] = "rs_ret" /\ sb' = sb /\ hqueue' = hqueue
    ]_vars

\* C13 witness: the second of two RunStarts in a row on a Handler that was
\* Paused has returned its channel.
C13_ResumedTwice ==
  \E h \in HandlerPtrs : AllIdle /\ resumes = <<h, 2>> /\ outstanding[h] = 2

\* the step is a StopIfPaused on h, called directly or by the LRU's sweep
StopIfPausedOn(h) ==
  \/ IsStopIfPaused(h)
  \/ \E t \in AllThreads : LruEvict(t) /\ h = LruVictim(hqueue)

\* C14: a StopIfPaused leaves the state Stopped exactly when it found Paused
\* and Unpause and Stop both succeeded, or when it found Stopped; otherwise
\* the state is as before: not Paused (no sandbox operation is called, nothing
\* is logged), Unpause failed (sandbox untouched) or Stop failed after Unpause
\* (still Paused, sandbox left running).  Runners, sandbox handle and lastPull
\* never change.
C14_StopIfPausedOutcome ==
  [][\A h \in HandlerPtrs :
       StopIfPausedOn(h) =>
         /\ hd'[h].runners = hd[h].runners
         /\ hd'[h].sandbox = hd[h].sandbox /\ hd'[h].lastPull = hd[h].lastPull
         /\ hd'[h].state = Stopped <=>
              (hd[h].state = Stopped \/ (hd[h].state = Paused /\ StepNoFault))
         /\ hd'[h].state # Stopped => hd'[h].state = hd[h].state
         /\ hd[h].state # Paused =>
              sb' = sb /\ StepNoFault /\ logged' = NoLine
         /\ (hd[h].state = Paused /\ ~StepNoFault) =>
              \/ logged' = "unpause" /\ sb' = sb
              \/ logged' = "kill" /\ sb'[h] = Running
    ]_vars

\* C14 witness: a StopIfPaused called directly has just failed in Stop after a
\* successful Unpause: the Handler is still Paused, its sandbox runs.
C14_StopFailedStaysPaused ==
  \E h \in HandlerPtrs :
    /\ AllIdle /\ logged = "kill"
    /\ hd[h].state = Paused /\ sb[h] = Running /\ hd[h].runners = 0

\* C15: with RunFinish called once per channel that RunStart handed out and
\* never otherwise, a Handler's runners are never negative: they are at least
\* the channels still held by callers.
C15_RunnersNotNegative ==
  \A h \in HandlerPtrs :
    /\ hd[h].runners >= 0
    /\ outstanding[h] >= 0
    /\ hd[h].runners >= outstanding[h]

\* C15 witness: every channel handed out on one Handler has been finished (no
\* runner left, Paused and tracked) while two callers still hold channels of
\* another Handler.
C15_AllFinished ==
  \E h \in HandlerPtrs :
    /\ AllIdle /\ NoFault /\ hd[h].runners = 0 /\ outstanding[h] = 0
    /\ hd[h].state = Paused /\ h \in Tracked
    /\ \E h2 \in HandlerPtrs : h2 # h /\ hd[h2].runners = 2 /\ outstanding[h2] = 2

\* C16: a Handler with runners is Running; put the other way, a Handler that
\* is Paused (RunFinish's doing only when the runners reached 0), Stopped
\* (StopIfPaused's doing) or Uninitialized has no runners.
C16_RunnersImplyRunning ==
  \A h \in HandlerPtrs :
    /\ hd[h].runners > 0 => hd[h].state = Running
    /\ hd[h].state \in {Paused, Stopped, Unitialized} => hd[h].runners = 0

\* C16 witness: a Handler that the LRU still tracks, so that a sweep may call
\* StopIfPaused on it, is Running with a runner, next to a Paused one.
C16_TrackedWithRunner ==
  \E h, h2 \in HandlerPtrs :
    /\ h \in Tracked /\ Unlocked(h) /\ hd[h].state = Running
    /\ hd[h].runners = 1 /\ outstanding[h] = 1
    /\ h2 # h /\ hd[h2].state = Paused /\ h2 \in Tracked

\* C17: whenever a Handler's lock is free its runners equal the channels that
\* RunStart handed out and that were not finished yet, and a RunStart that
\* returns an error returns with the runners it found.
C17_RunnerAccounting ==
  /\ \A h \in HandlerPtrs : Unlocked(h) => hd[h].runners = outstanding[h]
  /\ \A t \in AllThreads :
       (pc[t] = "rs_ret" /\ ret[t] # "ok") => hd[th[t]].runners = entry[t].h.runners

\* C18: a RunStart in progress on a Handler holds its lock, which StopIfPaused
\* needs, so one of the two acts at a time; and a RunStart that finds the
\* Handler Stopped by a StopIfPaused (nothing has failed in the run) and
\* returns a channel has brought the sandbox back to running, with state
\* Running, at least one runner and the Handler not tracked by the LRU.
C18_ResumeEvictionRace ==
  \A t \in AllThreads :
    /\ pc[t] \in {"rs_pull", "rs_sandbox", "rs_remove", "rs_ret"} => hd[th[t]].mutex = t
    /\ (/\ pc[t] = "rs_ret" /\ ret[t] = "ok"
        /\ entry[t].h.sandbox /\ entry[t].h.state = Stopped
        /\ entry[t].faults = faultBudget) =>
         /\ sb[th[t]] = Running
         /\ hd[th[t]].state = Running /\ hd[th[t]].runners >= 1
         /\ th[t] \notin Tracked

\* C19: as long as no collaborator has failed, whenever a Handler's lock is
\* free the state it caches is the state its sandbox is really in.
C19_CachedStateAgrees ==
  \A h \in HandlerPtrs :
    (NoFault /\ Unlocked(h) /\ hd[h].sandbox) => hd[h].state = sb[h]

\* C20: whenever a Handler's lock is free, a Handler without sandbox is
\* Uninitialized and a Handler with a sandbox is Stopped, Paused or Running,
\* also after a RunStart that failed after creating the sandbox; and the
\* factory is called again only after a failure, so that it creates at most
\* one sandbox per Handler.
C20_SandboxStateCoupling ==
  \A h \in HandlerPtrs :
    /\ Unlocked(h) =>
         /\ ~hd[h].sandbox => hd[h].state = Unitialized
         /\ hd[h].sandbox => hd[h].state \in {Stopped, Paused, Running}
    /\ hd[h].sandbox => createCalls[h] >= 1
    /\ createCalls[h] <= 1 + (faultBudget - faultsLeft)
====
